---- MODULE Spec2Model ----
(***************************************************************************)
(* A model of dumpyara: the partition registry, the slot resolver          *)
(* (correct_ab_filenames), the alias resolver (fix_aliases), the partition *)
(* extractor (extract_partitions) and the orchestrator (dumpyara).         *)
(*                                                                         *)
(* A directory is a function from the names of the files it holds to their *)
(* content; the content of a file is a tag naming where its bytes came     *)
(* from. File names are strings and are taken apart character by character *)
(* the way pathlib and removesuffix do.                                    *)
(***************************************************************************)
EXTENDS Integers, Sequences, FiniteSets, TLC

VARIABLES
    pc,         \* the statement the program is at
    debug,      \* dumpyara's debug argument of the current call
    archive,    \* the partition images the firmware archive can supply
    dirs,       \* which of the output folder and its two temp folders exist
    tmpArchive, \* temp_extracted_archive: the names of the files in it
    tmpRaw,     \* temp_raw_images: the directory (file name -> content)
    out,        \* files directly in the output folder (file name -> content)
    outDirs,    \* per-partition output subdirectories (partition -> content)
    manifest,   \* the paths written to all_files.txt
    todo,       \* correct_ab_filenames: entries of iterdir() not yet visited
    idx,        \* loop position of fix_aliases / extract_partitions
    attempted,  \* extract_partitions: the partitions attempted, in order
    exc,        \* the exception that is propagating, or NoExc
    result,     \* what the call returned, or NoResult
    run,        \* number of the current call
    created,    \* history: the folders the current call has created
    raw0,       \* history: the staging directory when the operation started
    pre,        \* history: the file system when the current call started
    queried     \* the argument of a lookup in the registry, or NoName

vars == <<pc, debug, archive, dirs, tmpArchive, tmpRaw, out, outDirs,
          manifest, todo, idx, attempted, exc, result, run, created, raw0, pre, queried>>

-----------------------------------------------------------------------------
(* Bounds of the model *)

\* most files in the staging directory handed to correct_ab_filenames
MaxStagedAB == 3
\* most files in the staging directory handed to fix_aliases
MaxStagedAlias == 4
\* most files in the staging directory handed to extract_partitions
MaxStagedExtract == 3
\* most files in the staging directory handed to the three stages in turn
MaxStagedStages == 3
\* most partition images in the firmware archive of a pipeline run
MaxArchive == 2
\* most calls of dumpyara on the same archive and output root
MaxRuns == 2
MaxLookups == 2

NoExc == "<none>"
NoResult == "<none>"
NoName == "<none>"

-----------------------------------------------------------------------------
(* The statements of dumpyara, in order *)

\* step_2: raw-image preparation, then the slot and the alias resolver
step_2 == <<"prepare_raw_images", "correct_ab_filenames", "fix_aliases">>

\* step_3: the partition extractor
step_3 == <<"extract_partitions">>

\* the body of the try block
Statements ==
    <<"mkdir_path", "mkdir_archive", "mkdir_raw", "step_1">>
    \o step_2 \o step_3 \o <<"manifest">>

\* OnRaise with the exception swallowed: the next statement runs
OnRaiseContinue(stmt) ==
    LET i == CHOOSE k \in 1..Len(Statements) : Statements[k] = stmt
    IN  IF i < Len(Statements) THEN Statements[i + 1] ELSE "finally"

\* where control goes when a statement of the try block raises
OnRaise(stmt) == "finally"

\* where control goes when a statement completes: the next statement, and
\* the finally block after the last
After(stmt) ==
    LET i == CHOOSE k \in 1..Len(Statements) : Statements[k] = stmt
    IN  IF i < Len(Statements) THEN Statements[i + 1] ELSE "finally"

-----------------------------------------------------------------------------
(* The partition registry *)

FILESYSTEM == 0
BOOTIMAGE == 1
RAW == 2

PARTITIONS ==
    << <<"boot", BOOTIMAGE>>, <<"dtbo", RAW>>, <<"recovery", BOOTIMAGE>>,
       <<"vendor_boot", BOOTIMAGE>>,
       <<"exaid", BOOTIMAGE>>, <<"rescue", BOOTIMAGE>>, <<"tz", RAW>>,
       <<"odm", FILESYSTEM>>, <<"odm_dlkm", FILESYSTEM>>, <<"oem", FILESYSTEM>>,
       <<"product", FILESYSTEM>>, <<"system", FILESYSTEM>>,
       <<"system_dlkm", FILESYSTEM>>, <<"system_ext", FILESYSTEM>>,
       <<"system_other", FILESYSTEM>>, <<"vendor", FILESYSTEM>>,
       <<"vendor_dlkm", FILESYSTEM>>,
       <<"cust", FILESYSTEM>>, <<"factory", FILESYSTEM>>, <<"india", FILESYSTEM>>,
       <<"modem", FILESYSTEM>>, <<"my_bigball", FILESYSTEM>>,
       <<"my_carrier", FILESYSTEM>>, <<"my_company", FILESYSTEM>>,
       <<"my_country", FILESYSTEM>>, <<"my_custom", FILESYSTEM>>,
       <<"my_engineering", FILESYSTEM>>, <<"my_heytap", FILESYSTEM>>,
       <<"my_manifest", FILESYSTEM>>, <<"my_odm", FILESYSTEM>>,
       <<"my_operator", FILESYSTEM>>, <<"my_preload", FILESYSTEM>>,
       <<"my_product", FILESYSTEM>>, <<"my_region", FILESYSTEM>>,
       <<"my_stock", FILESYSTEM>>, <<"my_version", FILESYSTEM>>,
       <<"odm_ext", FILESYSTEM>>, <<"oppo_product", FILESYSTEM>>,
       <<"opproduct", FILESYSTEM>>, <<"preload_common", FILESYSTEM>>,
       <<"reserve", FILESYSTEM>>, <<"special_preload", FILESYSTEM>>,
       <<"systemex", FILESYSTEM>>, <<"xrom", FILESYSTEM>> >>

\* alternative name, generic name
ALTERNATIVE_PARTITION_NAMES ==
    << <<"boot-verified", "boot">>, <<"dtbo-verified", "dtbo">>,
       <<"NON-HLOS", "modem">> >>

Range(s) == {s[i] : i \in 1..Len(s)}

\* PARTITIONS[partition]
PartitionType(partition) ==
    (CHOOSE e \in Range(PARTITIONS) : e[1] = partition)[2]

\* get_partition_name as a lookup without the default
GetWithoutDefault(partition_name) ==
    IF \E e \in Range(ALTERNATIVE_PARTITION_NAMES) : e[1] = partition_name
    THEN (CHOOSE e \in Range(ALTERNATIVE_PARTITION_NAMES) : e[1] = partition_name)[2]
    ELSE "None"

get_partition_name(partition_name) ==
    IF \E e \in Range(ALTERNATIVE_PARTITION_NAMES) : e[1] = partition_name
    THEN (CHOOSE e \in Range(ALTERNATIVE_PARTITION_NAMES) : e[1] = partition_name)[2]
    ELSE partition_name

\* get_partition_names listing the keys last to first
ReversedPartitionNames == [i \in 1..Len(PARTITIONS) |-> PARTITIONS[Len(PARTITIONS) + 1 - i][1]]

get_partition_names == [i \in 1..Len(PARTITIONS) |-> PARTITIONS[i][1]]

get_partition_names_with_alias ==
    get_partition_names \o
    [i \in 1..Len(ALTERNATIVE_PARTITION_NAMES) |-> ALTERNATIVE_PARTITION_NAMES[i][1]]

get_partition_names_with_ab ==
    [k \in 1..(3 * Len(get_partition_names_with_alias)) |->
        LET partition == get_partition_names_with_alias[((k - 1) \div 3) + 1]
        IN  CASE (k - 1) % 3 = 0 -> partition
              [] (k - 1) % 3 = 1 -> partition \o "_a"
              [] OTHER           -> partition \o "_b"]

-----------------------------------------------------------------------------
(* Strings and paths *)

endswith(s, suffix) ==
    /\ Len(s) >= Len(suffix)
    /\ SubSeq(s, Len(s) - Len(suffix) + 1, Len(s)) = suffix

removesuffix(s, suffix) ==
    IF Len(suffix) > 0 /\ endswith(s, suffix)
    THEN SubSeq(s, 1, Len(s) - Len(suffix))
    ELSE s

Min(S) == CHOOSE x \in S : \A y \in S : x <= y

\* "".join(file.suffixes): pathlib drops the leading dots of the name and
\* takes everything from the first dot that is left; a name that ends in a
\* dot has no suffixes
get_filename_suffixes(file) ==
    LET nondots == {i \in 1..Len(file) : SubSeq(file, i, i) # "."}
        lead    == IF nondots = {} THEN Len(file) ELSE Min(nondots) - 1
        dots    == {i \in (lead + 1)..Len(file) : SubSeq(file, i, i) = "."}
    IN  IF endswith(file, ".") \/ dots = {} THEN ""
        ELSE SubSeq(file, Min(dots), Len(file))

get_filename_without_extensions(file) ==
    removesuffix(file, get_filename_suffixes(file))

-----------------------------------------------------------------------------
(* Directories *)

EmptyDir == [n \in {} |-> ""]

\* Path.is_file() / Path.exists() of a name in a directory of plain files
IsFile(dir, name) == name \in DOMAIN dir

\* Path.unlink()
Unlink(dir, name) == [n \in DOMAIN dir \ {name} |-> dir[n]]

\* Move as a copy: the source file stays where it was
MoveCopies(dir, src, dst) ==
    [n \in DOMAIN dir \cup {dst} |-> IF n = dst THEN dir[src] ELSE dir[n]]

\* shutil.move(src, dst) of an existing file: os.rename, replacing dst
Move(dir, src, dst) ==
    [n \in (DOMAIN dir \ {src}) \cup {dst} |-> IF n = dst THEN dir[src] ELSE dir[n]]

\* a directory that holds the given files, each with a content of its own
Fresh(names) == [n \in names |-> n]

-----------------------------------------------------------------------------
(* correct_ab_filenames *)

\* IsKnownPartition without the lookup: every token passes
IsAnyToken(file_stem_unslotted) == TRUE

\* file_stem_unslotted in partitions
IsKnownPartition(file_stem_unslotted) ==
    file_stem_unslotted \in Range(get_partition_names_with_alias)

\* Promote without its elif branch: a lone _b file is never promoted
PromoteOnlyA(dir, non_ab_partition_path, a_partition_path, b_partition_path) ==
    IF IsFile(dir, a_partition_path)
    THEN Move(dir, a_partition_path, non_ab_partition_path)
    ELSE dir

\* one of the slotted files becomes the unslotted one, _a before _b
Promote(dir, non_ab_partition_path, a_partition_path, b_partition_path) ==
    IF IsFile(dir, a_partition_path)
    THEN Move(dir, a_partition_path, non_ab_partition_path)
    ELSE IF IsFile(dir, b_partition_path)
    THEN Move(dir, b_partition_path, non_ab_partition_path)
    ELSE dir

\* Resolve without the unlink: a redundant slotted file is left where it is
ResolveKeepsRedundant(dir, file, non_ab_path, a_path, b_path) ==
    IF IsFile(dir, non_ab_path) THEN dir
    ELSE Promote(dir, non_ab_path, a_path, b_path)

\* the resolution of a slotted file of a known partition
Resolve(dir, file, non_ab_partition_path, a_partition_path, b_partition_path) ==
    IF IsFile(dir, non_ab_partition_path) THEN Unlink(dir, file)
    ELSE Promote(dir, non_ab_partition_path, a_partition_path, b_partition_path)

\* one iteration of the loop over images_path.iterdir()
ABIter(dir, file) ==
    IF ~IsFile(dir, file) THEN dir
    ELSE
    LET file_stem == get_filename_without_extensions(file)
    IN  IF ~endswith(file_stem, "_a") /\ ~endswith(file_stem, "_b") THEN dir
        ELSE
        LET suffix == SubSeq(file_stem, Len(file_stem) - 1, Len(file_stem))
            file_stem_unslotted == removesuffix(file_stem, suffix)
        IN  IF ~IsKnownPartition(file_stem_unslotted)
            THEN dir
            ELSE
            LET exts == get_filename_suffixes(file)
                non_ab_partition_path == file_stem_unslotted \o exts
                a_partition_path == file_stem_unslotted \o "_a" \o exts
                b_partition_path == file_stem_unslotted \o "_b" \o exts
            IN  Resolve(dir, file, non_ab_partition_path, a_partition_path,
                        b_partition_path)

\* the whole loop, visiting the entries in the order of the sequence
RECURSIVE ABFold(_, _)
ABFold(dir, order) ==
    IF order = <<>> THEN dir
    ELSE ABFold(ABIter(dir, Head(order)), Tail(order))

\* iterdir(): the listing is taken when the loop starts, in any order
ABStart ==
    /\ pc = "correct_ab_filenames"
    /\ todo' = DOMAIN tmpRaw
    /\ pc' = "ab_loop"
    /\ UNCHANGED <<debug, archive, dirs, tmpArchive, tmpRaw, out, outDirs,
                   manifest, idx, attempted, exc, result, run, created, raw0, pre, queried>>

ABLoop ==
    /\ pc = "ab_loop"
    /\ \E file \in todo :
          /\ tmpRaw' = ABIter(tmpRaw, file)
          /\ todo' = todo \ {file}
    /\ UNCHANGED <<pc, debug, archive, dirs, tmpArchive, out, outDirs,
                   manifest, idx, attempted, exc, result, run, created, raw0, pre, queried>>

ABReturn ==
    /\ pc = "ab_loop"
    /\ todo = {}
    /\ pc' = After("correct_ab_filenames")
    /\ idx' = 1
    /\ UNCHANGED <<debug, archive, dirs, tmpArchive, tmpRaw, out, outDirs,
                   manifest, todo, attempted, exc, result, run, created, raw0, pre, queried>>

-----------------------------------------------------------------------------
(* fix_aliases *)

\* shutil.move(src, dst): os.rename fails on a missing src, and so does the
\* copy it falls back to, before dst is opened; FileNotFoundError comes out
ShutilMove(dir, src, dst) ==
    IF IsFile(dir, src)
    THEN [raised |-> NoExc, dir |-> Move(dir, src, dst)]
    ELSE [raised |-> "FileNotFoundError", dir |-> dir]

\* the directory when the collision branch has run
AliasCollision(dir, alt_path, partition_path) ==
    IF IsFile(dir, partition_path) THEN Unlink(dir, alt_path) ELSE dir

\* one iteration of the loop over ALTERNATIVE_PARTITION_NAMES.items()
AliasIter(dir, i) ==
    LET alt_name == ALTERNATIVE_PARTITION_NAMES[i][1]
        name == ALTERNATIVE_PARTITION_NAMES[i][2]
        alt_path == alt_name \o ".img"
        partition_path == name \o ".img"
    IN  IF ~IsFile(dir, alt_path) THEN [raised |-> NoExc, dir |-> dir]
        ELSE ShutilMove(AliasCollision(dir, alt_path, partition_path),
                        alt_path, partition_path)

\* the whole loop from entry i on: it stops at the first exception
RECURSIVE FixAliasesFrom(_, _)
FixAliasesFrom(dir, i) ==
    IF i > Len(ALTERNATIVE_PARTITION_NAMES) THEN [raised |-> NoExc, dir |-> dir]
    ELSE LET r == AliasIter(dir, i)
         IN  IF r.raised # NoExc THEN r ELSE FixAliasesFrom(r.dir, i + 1)

FixAliasesLoop ==
    /\ pc = "fix_aliases"
    /\ idx <= Len(ALTERNATIVE_PARTITION_NAMES)
    /\ LET r == AliasIter(tmpRaw, idx)
       IN  /\ tmpRaw' = r.dir
           /\ exc' = r.raised
           /\ IF r.raised = NoExc
              THEN /\ idx' = idx + 1
                   /\ pc' = pc
              ELSE /\ idx' = idx
                   /\ pc' = OnRaise("fix_aliases")
    /\ UNCHANGED <<debug, archive, dirs, tmpArchive, out, outDirs,
                   manifest, todo, attempted, result, run, created, raw0, pre, queried>>

FixAliasesReturn ==
    /\ pc = "fix_aliases"
    /\ idx > Len(ALTERNATIVE_PARTITION_NAMES)
    /\ pc' = After("fix_aliases")
    /\ idx' = 1
    /\ UNCHANGED <<debug, archive, dirs, tmpArchive, tmpRaw, out, outDirs,
                   manifest, todo, attempted, exc, result, run, created, raw0, pre, queried>>

-----------------------------------------------------------------------------
(* extract_partitions *)

\* writing a file (or the content of a subdirectory) under a name
Put(dir, name, content) ==
    [n \in DOMAIN dir \cup {name} |-> IF n = name THEN content ELSE dir[n]]

\* what the collaborator called for a partition of this type can do:
\* extract_bootimg returns or raises; sevenz returns, raises
\* CalledProcessError (7z exited non-zero) or raises something else; a RAW
\* partition has no collaborator
Outcomes(partition_type) ==
    CASE partition_type = BOOTIMAGE  -> {"ok", "Exception"}
      [] partition_type = FILESYSTEM -> {"ok", "CalledProcessError", "Exception"}
      [] OTHER                       -> {"ok"}

\* does the except clause around the collaborator's call catch the outcome
Caught(partition_type, outcome) ==
    CASE partition_type = BOOTIMAGE  -> TRUE
      [] partition_type = FILESYSTEM -> outcome = "CalledProcessError"
      [] OTHER                       -> FALSE

\* what the collaborator leaves in output_path / partition
Extracted(outcome) == IF outcome = "ok" THEN "extracted" ELSE "partial"

\* CopiesRaw with BOOTIMAGE left out of the tuple
CopiesOnlyRaw(partition_type) == partition_type = RAW

\* is the raw image copied into the output folder
CopiesRaw(partition_type) == partition_type \in {RAW, BOOTIMAGE}

\* the positions, from i on, of the partitions whose image is staged
Staged(dir, i) ==
    {j \in i..Len(get_partition_names) :
        IsFile(dir, get_partition_names[j] \o ".img")}

\* one iteration of the loop for a partition whose image exists
ExtractIter(dir, o, od, partition, outcome) ==
    LET partition_type == PartitionType(partition)
        image_path == partition \o ".img"
        raised == IF outcome = "ok" \/ Caught(partition_type, outcome)
                  THEN NoExc ELSE outcome
        od1 == IF partition_type \in {BOOTIMAGE, FILESYSTEM}
               THEN Put(od, partition, Extracted(outcome)) ELSE od
        o1 == IF raised = NoExc /\ CopiesRaw(partition_type)
              THEN Put(o, image_path, dir[image_path]) ELSE o
    IN  [raised |-> raised, out |-> o1, outDirs |-> od1]

ExtractLoop ==
    /\ pc = "extract_partitions"
    /\ Staged(tmpRaw, idx) # {}
    /\ LET i == Min(Staged(tmpRaw, idx))
           partition == get_partition_names[i]
       IN  \E outcome \in Outcomes(PartitionType(partition)) :
             LET r == ExtractIter(tmpRaw, out, outDirs, partition, outcome)
             IN  /\ attempted' = Append(attempted, partition)
                 /\ out' = r.out
                 /\ outDirs' = r.outDirs
                 /\ exc' = r.raised
                 /\ IF r.raised = NoExc
                    THEN /\ idx' = i + 1
                         /\ pc' = pc
                    ELSE /\ idx' = i
                         /\ pc' = OnRaise("extract_partitions")
    /\ UNCHANGED <<debug, archive, dirs, tmpArchive, tmpRaw, manifest, todo,
                   result, run, created, raw0, pre, queried>>

ExtractReturn ==
    /\ pc = "extract_partitions"
    /\ Staged(tmpRaw, idx) = {}
    /\ pc' = After("extract_partitions")
    /\ UNCHANGED <<debug, archive, dirs, tmpArchive, tmpRaw, out, outDirs,
                   manifest, todo, idx, attempted, exc, result, run, created, raw0, pre, queried>>

-----------------------------------------------------------------------------
(* dumpyara *)

Path == "path"
ExtractedArchivePath == "temp_extracted_archive"
RawImagesPath == "temp_raw_images"

\* Path.mkdir() without exist_ok: the exception it raises, if any
Mkdir(exists, oserror) ==
    IF exists THEN "FileExistsError"
    ELSE IF oserror THEN "OSError"
    ELSE NoExc

\* one of the three mkdir statements
MkdirStmt(stmt, d) ==
    /\ pc = stmt
    /\ \E oserror \in BOOLEAN :
         LET e == Mkdir(d \in dirs, oserror)
         IN  /\ exc' = e
             /\ IF e = NoExc
                THEN /\ dirs' = dirs \cup {d}
                     /\ created' = created \cup {d}
                     /\ pc' = After(stmt)
                ELSE /\ dirs' = dirs
                     /\ created' = created
                     /\ pc' = OnRaise(stmt)
    /\ UNCHANGED <<debug, archive, tmpArchive, tmpRaw, out, outDirs, manifest,
                   todo, idx, attempted, result, run, raw0, pre, queried>>

MkdirPath == MkdirStmt("mkdir_path", Path)

MkdirArchive == MkdirStmt("mkdir_archive", ExtractedArchivePath)

MkdirRaw == MkdirStmt("mkdir_raw", RawImagesPath)

\* step_1: the archive unpacks into temp_extracted_archive, or fails
Step1 ==
    /\ pc = "step_1"
    /\ \E ok \in BOOLEAN :
         IF ok
         THEN /\ tmpArchive' = archive
              /\ exc' = NoExc
              /\ pc' = After("step_1")
         ELSE /\ tmpArchive' = tmpArchive
              /\ exc' = "UnpackError"
              /\ pc' = OnRaise("step_1")
    /\ UNCHANGED <<debug, archive, dirs, tmpRaw, out, outDirs, manifest, todo,
                   idx, attempted, result, run, created, raw0, pre, queried>>

\* get_raw_image for every name of the list: an image is produced where the
\* unpacked archive holds a source for the name
prepare_raw_images(files) ==
    Fresh({get_partition_names_with_ab[k] \o ".img" :
             k \in {j \in 1..Len(get_partition_names_with_ab) :
                       get_partition_names_with_ab[j] \in files}})

PrepareRawImages ==
    /\ pc = "prepare_raw_images"
    /\ tmpRaw' = prepare_raw_images(tmpArchive)
    /\ raw0' = tmpRaw'
    /\ pc' = After("prepare_raw_images")
    /\ UNCHANGED <<debug, archive, dirs, tmpArchive, out, outDirs, manifest,
                   todo, idx, attempted, exc, result, run, created, pre, queried>>

\* get_recursive_files_list(path, relative=True): every file under the
\* output folder, the two temp folders included while they exist
get_recursive_files_list(o, od, ds, ta, tr) ==
    DOMAIN o
    \cup {p \o "/" \o od[p] : p \in DOMAIN od}
    \cup (IF ExtractedArchivePath \in ds
          THEN {ExtractedArchivePath \o "/" \o n : n \in ta} ELSE {})
    \cup (IF RawImagesPath \in ds
          THEN {RawImagesPath \o "/" \o n : n \in DOMAIN tr} ELSE {})

\* step 4: all_files.txt is written and the output folder returned
Manifest ==
    /\ pc = "manifest"
    /\ manifest' = get_recursive_files_list(out, outDirs, dirs, tmpArchive, tmpRaw)
    /\ out' = Put(out, "all_files.txt", "<files list>")
    /\ result' = Path
    /\ pc' = After("manifest")
    /\ UNCHANGED <<debug, archive, dirs, tmpArchive, tmpRaw, outDirs, todo, idx,
                   attempted, exc, run, created, raw0, pre, queried>>

\* Removed without the second rmtree: temp_raw_images is never removed
RemovedOnlyArchive(dbg, existing) ==
    IF dbg THEN {}
    ELSE {ExtractedArchivePath} \cap existing

\* the temp folders the finally block removes
Removed(dbg, existing) ==
    IF dbg THEN {}
    ELSE {ExtractedArchivePath, RawImagesPath} \cap existing

Finally ==
    /\ pc = "finally"
    /\ LET gone == Removed(debug, dirs)
       IN  /\ dirs' = dirs \ gone
           /\ tmpArchive' = IF ExtractedArchivePath \in gone THEN {} ELSE tmpArchive
           /\ tmpRaw' = IF RawImagesPath \in gone THEN EmptyDir ELSE tmpRaw
    /\ pc' = "done"
    /\ UNCHANGED <<debug, archive, out, outDirs, manifest, todo, idx, attempted,
                   exc, result, run, created, raw0, pre, queried>>

\* the file system, and how the last call ended
Snapshot ==
    [dirs |-> dirs, tmpArchive |-> tmpArchive, tmpRaw |-> tmpRaw, out |-> out,
     outDirs |-> outDirs, manifest |-> manifest, result |-> result, exc |-> exc,
     debug |-> debug]

\* dumpyara is called again, on the same archive and output root
Rerun ==
    /\ pc = "done"
    /\ run < MaxRuns
    /\ pc' = "mkdir_path"
    /\ debug' \in BOOLEAN
    /\ run' = run + 1
    /\ pre' = Snapshot
    /\ exc' = NoExc
    /\ result' = NoResult
    /\ attempted' = <<>>
    /\ created' = {}
    /\ todo' = {}
    /\ idx' = 1
    /\ UNCHANGED <<archive, dirs, tmpArchive, tmpRaw, out, outDirs, manifest, raw0, queried>>

-----------------------------------------------------------------------------
(* Inputs *)

\* the partition tokens the inputs are drawn from: a boot image, a raw
\* image and a filesystem image that have an alias, with their aliases, a
\* filesystem image that has none, and a token the registry does not know
TokenPool ==
    {"boot", "boot-verified", "dtbo", "dtbo-verified", "system", "modem",
     "NON-HLOS", "foo"}

Slots == {"", "_a", "_b"}

NamePool == {t \o s : t \in TokenPool, s \in Slots}

FilePool == {n \o ".img" : n \in NamePool}

\* the subsets of S of at most k elements
RECURSIVE SubsetsUpTo(_, _)
SubsetsUpTo(S, k) ==
    IF k = 0 THEN {{}}
    ELSE LET smaller == SubsetsUpTo(S, k - 1)
         IN  smaller \cup {T \cup {x} : T \in smaller, x \in S}

-----------------------------------------------------------------------------
(* Specifications *)

\* the state before anything has run, but for pc and the staging directory
Idle ==
    /\ debug = FALSE
    /\ archive = {}
    /\ tmpArchive = {}
    /\ out = EmptyDir
    /\ outDirs = EmptyDir
    /\ manifest = {}
    /\ todo = {}
    /\ idx = 1
    /\ attempted = <<>>
    /\ exc = NoExc
    /\ result = NoResult
    /\ run = 1
    /\ created = {}

\* a function of partitions.py is called on a staging directory
Called(fn, maxFiles) ==
    /\ Idle
    /\ queried = NoName
    /\ pc = fn
    /\ dirs = {Path, ExtractedArchivePath, RawImagesPath}
    /\ tmpRaw \in {Fresh(S) : S \in SubsetsUpTo(FilePool, maxFiles)}
    /\ raw0 = tmpRaw
    /\ pre = [dirs |-> dirs, tmpArchive |-> {}, tmpRaw |-> tmpRaw,
              out |-> EmptyDir, outDirs |-> EmptyDir, manifest |-> {},
              result |-> NoResult, exc |-> NoExc, debug |-> FALSE]

\* dumpyara is called on an archive, the output root holding nothing yet
Init ==
    /\ pc = "mkdir_path"
    /\ debug \in BOOLEAN
    /\ archive \in SubsetsUpTo(NamePool, MaxArchive)
    /\ dirs = {}
    /\ tmpArchive = {}
    /\ tmpRaw = EmptyDir
    /\ out = EmptyDir
    /\ outDirs = EmptyDir
    /\ manifest = {}
    /\ todo = {}
    /\ idx = 1
    /\ attempted = <<>>
    /\ exc = NoExc
    /\ result = NoResult
    /\ run = 1
    /\ created = {}
    /\ raw0 = EmptyDir
    /\ pre = [dirs |-> {}, tmpArchive |-> {}, tmpRaw |-> EmptyDir,
              out |-> EmptyDir, outDirs |-> EmptyDir, manifest |-> {},
              result |-> NoResult, exc |-> NoExc, debug |-> debug]
    /\ queried = NoName

Next ==
    \/ MkdirPath \/ MkdirArchive \/ MkdirRaw \/ Step1 \/ PrepareRawImages
    \/ ABStart \/ ABLoop \/ ABReturn
    \/ FixAliasesLoop \/ FixAliasesReturn
    \/ ExtractLoop \/ ExtractReturn
    \/ Manifest \/ Finally \/ Rerun

Spec == Init /\ [][Next]_vars

\* correct_ab_filenames alone, on any staging directory
InitAB == Called("correct_ab_filenames", MaxStagedAB)

NextAB == ABStart \/ ABLoop \/ ABReturn

SpecAB == InitAB /\ [][NextAB]_vars

\* fix_aliases alone, on any staging directory
InitAlias == Called("fix_aliases", MaxStagedAlias)

NextAlias == FixAliasesLoop \/ FixAliasesReturn

SpecAlias == InitAlias /\ [][NextAlias]_vars

\* extract_partitions alone, on any staging directory
InitExtract == Called("extract_partitions", MaxStagedExtract)

NextExtract == ExtractLoop \/ ExtractReturn

SpecExtract == InitExtract /\ [][NextExtract]_vars

\* correct_ab_filenames, fix_aliases and extract_partitions in turn, the way
\* step_2 and step_3 call them, on any staging directory
\* the files staged for the three stages: a partition of each type, two
\* alias pairs and an unknown token, in every slot
StagesPool ==
    {t \o s \o ".img" : t \in TokenPool \ {"system", "dtbo-verified"}, s \in Slots}

InitStages ==
    /\ Called("correct_ab_filenames", MaxStagedStages)
    /\ DOMAIN tmpRaw \subseteq StagesPool

NextStages ==
    \/ ABStart \/ ABLoop \/ ABReturn
    \/ FixAliasesLoop \/ FixAliasesReturn
    \/ ExtractLoop \/ ExtractReturn

SpecStages == InitStages /\ [][NextStages]_vars

\* the names get_partition_name is called on: every name of
\* get_partition_names_with_ab and names the registry does not know
RegistryInputs == Range(get_partition_names_with_ab) \cup NamePool

\* get_partition_name(queried) returns
GetPartitionName ==
    /\ pc = "get_partition_name"
    /\ result' = get_partition_name(queried)
    /\ pc' = "returned"
    /\ UNCHANGED <<debug, archive, dirs, tmpArchive, tmpRaw, out, outDirs,
                   manifest, todo, idx, attempted, exc, run, created, raw0, pre, queried>>

\* get_partition_name is called again, on the name it returned
GetPartitionNameAgain ==
    /\ pc = "returned"
    /\ run < MaxLookups
    /\ result' = get_partition_name(result)
    /\ run' = run + 1
    /\ UNCHANGED <<pc, debug, archive, dirs, tmpArchive, tmpRaw, out, outDirs,
                   manifest, todo, idx, attempted, exc, created, raw0, pre, queried>>

\* get_partition_name alone, on any name
InitRegistry ==
    /\ Idle
    /\ pc = "get_partition_name"
    /\ dirs = {}
    /\ tmpRaw = EmptyDir
    /\ raw0 = EmptyDir
    /\ pre = [dirs |-> {}, tmpArchive |-> {}, tmpRaw |-> EmptyDir,
              out |-> EmptyDir, outDirs |-> EmptyDir, manifest |-> {},
              result |-> NoResult, exc |-> NoExc, debug |-> FALSE]
    /\ queried \in RegistryInputs

NextRegistry == GetPartitionName \/ GetPartitionNameAgain

SpecRegistry == InitRegistry /\ [][NextRegistry]_vars

-----------------------------------------------------------------------------
(* Properties of fix_aliases (SpecAlias) *)

Aliases == 1..Len(ALTERNATIVE_PARTITION_NAMES)

AltPath(i) == ALTERNATIVE_PARTITION_NAMES[i][1] \o ".img"

CanonicalPath(i) == ALTERNATIVE_PARTITION_NAMES[i][2] \o ".img"

\* the alias and its canonical image were both staged when fix_aliases began
Collides(i) == IsFile(raw0, AltPath(i)) /\ IsFile(raw0, CanonicalPath(i))

FixAliasesEnded == pc # "fix_aliases"

\* C1: an alias collision is not an error. For every alias pair whose alias
\* and canonical image are both staged, fix_aliases raises nothing, the
\* alias is gone once its entry has been handled, and the call goes through
\* the remaining entries and returns.
C1_AliasCollisionIsNoError ==
    \A i \in Aliases :
        Collides(i) =>
            /\ exc = NoExc
            /\ FixAliasesEnded =>
                  /\ pc = After("fix_aliases")
                  /\ ~IsFile(tmpRaw, AltPath(i))

\* C2: for every alias pair whose alias and canonical image are both
\* staged, when fix_aliases has ended the alias is deleted and the canonical
\* image is there with the content it had before.
C2_CollisionKeepsCanonical ==
    FixAliasesEnded =>
        \A i \in Aliases :
            Collides(i) =>
                /\ ~IsFile(tmpRaw, AltPath(i))
                /\ IsFile(tmpRaw, CanonicalPath(i))
                /\ tmpRaw[CanonicalPath(i)] = raw0[CanonicalPath(i)]

-----------------------------------------------------------------------------
(* Properties of correct_ab_filenames (SpecAB) *)

ABReturned == pc = After("correct_ab_filenames")

KnownTokens == Range(get_partition_names_with_alias)

Plain(t) == t \o ".img"

SlotA(t) == t \o "_a.img"

SlotB(t) == t \o "_b.img"

\* C7: the dual-slot case. For every known token with both slotted files
\* staged and no unslotted file, whatever the enumeration order, the
\* unslotted file ends with the content of the _a file and the _b file is
\* still in place with its content.
C7_DualSlotKeepsB ==
    ABReturned =>
        \A t \in KnownTokens :
            (IsFile(raw0, SlotA(t)) /\ IsFile(raw0, SlotB(t)) /\ ~IsFile(raw0, Plain(t)))
            =>  /\ IsFile(tmpRaw, Plain(t))
                /\ tmpRaw[Plain(t)] = raw0[SlotA(t)]
                /\ ~IsFile(tmpRaw, SlotA(t))
                /\ IsFile(tmpRaw, SlotB(t))
                /\ tmpRaw[SlotB(t)] = raw0[SlotB(t)]

\* exactly one slotted file of t was staged, and no unslotted one
SingleSlot(t, slotted, other) ==
    /\ IsFile(raw0, slotted)
    /\ ~IsFile(raw0, other)
    /\ ~IsFile(raw0, Plain(t))

\* the unslotted file of t holds what the slotted one held, and no slotted
\* file of t is left
Promoted(t, slotted) ==
    /\ IsFile(tmpRaw, Plain(t))
    /\ tmpRaw[Plain(t)] = raw0[slotted]
    /\ ~IsFile(tmpRaw, SlotA(t))
    /\ ~IsFile(tmpRaw, SlotB(t))

\* C9: single-slot promotion. For every known token, canonical or alias,
\* with exactly one slotted file staged and no unslotted file, after
\* correct_ab_filenames the unslotted file exists with that file's content
\* and the slotted file does not.
C9_SingleSlotPromoted ==
    ABReturned =>
        \A t \in KnownTokens :
            /\ SingleSlot(t, SlotA(t), SlotB(t)) => Promoted(t, SlotA(t))
            /\ SingleSlot(t, SlotB(t), SlotA(t)) => Promoted(t, SlotB(t))

\* C9 witness: the call returned on a directory where an alias had only its
\* _b file and a canonical partition only its _a file, both now promoted
C9_Witness ==
    /\ ABReturned
    /\ SingleSlot("boot-verified", SlotB("boot-verified"), SlotA("boot-verified"))
    /\ Promoted("boot-verified", SlotB("boot-verified"))
    /\ SingleSlot("system", SlotA("system"), SlotB("system"))
    /\ Promoted("system", SlotA("system"))

\* C10: the redundant slot. For every known token whose unslotted file is
\* staged, after correct_ab_filenames no slotted file of the token is left
\* and the unslotted file has the content it had before.
C10_RedundantSlotDeleted ==
    ABReturned =>
        \A t \in KnownTokens :
            IsFile(raw0, Plain(t)) =>
                /\ ~IsFile(tmpRaw, SlotA(t))
                /\ ~IsFile(tmpRaw, SlotB(t))
                /\ IsFile(tmpRaw, Plain(t))
                /\ tmpRaw[Plain(t)] = raw0[Plain(t)]

\* C10 witness: the call returned on a directory that held a partition's
\* unslotted file with both of its slotted files, and the two are gone
C10_Witness ==
    /\ ABReturned
    /\ \E t \in KnownTokens :
          /\ IsFile(raw0, Plain(t)) /\ IsFile(raw0, SlotA(t)) /\ IsFile(raw0, SlotB(t))
          /\ DOMAIN tmpRaw = {Plain(t)}

-----------------------------------------------------------------------------
(* Properties of extract_partitions (SpecExtract) *)

ExtractEnded == pc # "extract_partitions"

\* the collaborator called for the partition failed
Failed(partition) ==
    partition \in DOMAIN outDirs /\ outDirs[partition] = Extracted("failed")

\* C4: failure isolation. For every partition whose collaborator failed
\* (extract_bootimg raising, sevenz exiting non-zero or raising), every
\* partition after it in the registry order that has a staged image has been
\* attempted when extract_partitions ends.
C4_FailureIsolation ==
    ExtractEnded =>
        \A i \in Staged(raw0, 1) : \A j \in Staged(raw0, 1) :
            (i < j /\ Failed(get_partition_names[i]))
            => get_partition_names[j] \in Range(attempted)

-----------------------------------------------------------------------------
(* Properties of dumpyara (Spec) *)

Temps == {ExtractedArchivePath, RawImagesPath}

Done == pc = "done"

\* the folders were created and the archive unpacked in this call
UnpackSucceeded == exc \notin {"FileExistsError", "OSError", "UnpackError"}

\* C3: whenever the folders are created and the archive unpacks, dumpyara
\* returns the output folder and all_files.txt is written, whatever was
\* staged and whatever the extractions did; nothing is raised to the caller.
C3_CompletesOnceUnpacked ==
    (Done /\ UnpackSucceeded) =>
        /\ exc = NoExc
        /\ result = Path
        /\ IsFile(out, "all_files.txt")

\* C5: cleanup on every exit path. When dumpyara has finished, by returning
\* or by raising, then without debug neither temp folder exists, and with
\* debug every temp folder the call created is still there.
C5_CleanupOnEveryExit ==
    Done =>
        IF debug THEN (created \cap Temps) \subseteq dirs
        ELSE dirs \cap Temps = {}

\* C5 witness: a call without debug has created both temp folders, failed
\* in fix_aliases and finished with both folders removed
C5_Witness ==
    /\ Done
    /\ ~debug
    /\ exc = "FileNotFoundError"
    /\ Temps \subseteq created
    /\ dirs \cap Temps = {}

\* C6: the pipeline run twice on the same archive and output root with the
\* same debug flag. Both calls complete, the second leaves the output tree
\* and the manifest of the first, no temp folder is left without debug, and
\* with debug both temp folders of the second call are there.
C6_SecondRunIdentical ==
    (Done /\ run >= 2 /\ pre.result = Path /\ pre.debug = debug) =>
        /\ result = Path
        /\ out = pre.out
        /\ outDirs = pre.outDirs
        /\ manifest = pre.manifest
        /\ IF debug THEN Temps \subseteq (created \cap dirs)
           ELSE dirs \cap Temps = {}

\* the orders in which a directory of these files can be enumerated
Orders(S) ==
    {o \in [1..Cardinality(S) -> S] :
        \A i \in DOMAIN o : \A j \in DOMAIN o : o[i] = o[j] => i = j}

\* the staging directory step_2 leaves when iterdir() yields this order
StagingFor(order) == FixAliasesFrom(ABFold(raw0, order), 1).dir

\* the raw copies extract_partitions makes from a staging directory
RawCopies(staging) ==
    [n \in {get_partition_names[i] \o ".img" :
               i \in {j \in Staged(staging, 1) :
                         CopiesRaw(PartitionType(get_partition_names[j]))}}
       |-> staging[n]]

\* C8: determinism with respect to directory enumeration. A completed run
\* ends with the staging directory, the output tree and the manifest that
\* the same run ends with under every other order of iterdir().
C8_EnumerationOrderIrrelevant ==
    (Done /\ result = Path) =>
        \A order \in Orders(DOMAIN raw0) :
            LET staging == StagingFor(order)
            IN  /\ debug => tmpRaw = staging
                /\ Unlink(out, "all_files.txt") = RawCopies(staging)
                /\ manifest =
                     get_recursive_files_list(RawCopies(staging), outDirs,
                         {Path} \cup Temps, archive, staging)

-----------------------------------------------------------------------------
(* Properties of the three stages in turn (SpecStages) *)

\* the token of a staged file, bare and with a slot suffix stripped
BareToken(file) == get_filename_without_extensions(file)

UnslottedToken(file) ==
    IF endswith(BareToken(file), "_a") \/ endswith(BareToken(file), "_b")
    THEN SubSeq(BareToken(file), 1, Len(BareToken(file)) - 2)
    ELSE BareToken(file)

\* neither token of the file is a registry name or an alias
UnknownFile(file) ==
    /\ BareToken(file) \notin KnownTokens
    /\ UnslottedToken(file) \notin KnownTokens

\* C11: unknown tokens are never touched. A staged file whose token, bare
\* or with _a/_b stripped, is neither a registry name nor an alias stays in
\* the staging directory under its name and with its content through
\* correct_ab_filenames and fix_aliases, and extract_partitions makes no
\* output directory and no raw copy for its token.
C11_UnknownUntouched ==
    \A file \in DOMAIN raw0 :
        UnknownFile(file) =>
            /\ IsFile(tmpRaw, file)
            /\ tmpRaw[file] = raw0[file]
            /\ {BareToken(file), UnslottedToken(file)} \cap DOMAIN outDirs = {}
            /\ {Plain(BareToken(file)), Plain(UnslottedToken(file))}
                  \cap DOMAIN out = {}

\* C11 witness: the three stages have run on a directory that held a slotted
\* file of an unknown token beside a known partition's, which was promoted
\* and copied out
C11_Witness ==
    /\ pc = After("extract_partitions")
    /\ IsFile(raw0, "foo_a.img")
    /\ IsFile(tmpRaw, "foo_a.img")
    /\ IsFile(raw0, "boot_a.img")
    /\ IsFile(out, "boot.img")

-----------------------------------------------------------------------------
(* More properties of extract_partitions (SpecExtract) *)

ExtractCompleted == pc = After("extract_partitions")

\* the canonical partitions whose image was staged
StagedPartitions ==
    {partition \in Range(get_partition_names) : IsFile(raw0, Plain(partition))}

\* C12: the raw-copy rule. When extract_partitions completes, the output
\* folder holds <partition>.img, a verbatim copy of the staged image, exactly
\* for the staged canonical partitions of type RAW or BOOTIMAGE, a BOOTIMAGE
\* whose unpack failed included; a FILESYSTEM partition has no raw copy, a
\* RAW partition no extraction, an unstaged partition no output at all.
C12_RawCopyRule ==
    ExtractCompleted =>
        /\ DOMAIN out =
             {Plain(partition) : partition \in
                {q \in StagedPartitions : PartitionType(q) \in {RAW, BOOTIMAGE}}}
        /\ \A n \in DOMAIN out : out[n] = raw0[n]
        /\ DOMAIN outDirs =
             {q \in StagedPartitions : PartitionType(q) \in {BOOTIMAGE, FILESYSTEM}}

\* C12 witness: the call completed on a boot image whose unpack failed, a
\* raw image and a filesystem image; the first two were copied
C12_Witness ==
    /\ ExtractCompleted
    /\ StagedPartitions = {"boot", "dtbo", "system"}
    /\ Failed("boot")
    /\ DOMAIN out = {"boot.img", "dtbo.img"}

\* the position of a key in the declaration of PARTITIONS
RegistryIndex(partition) ==
    CHOOSE k \in 1..Len(PARTITIONS) : PARTITIONS[k][1] = partition

\* C16: extract_partitions attempts the partitions in the declaration order
\* of PARTITIONS, each at most once and only those whose image is staged;
\* when it completes it has attempted every staged canonical partition. The
\* order does not depend on how the staging directory lists its files.
C16_RegistryOrder ==
    /\ \A i \in DOMAIN attempted : \A j \in DOMAIN attempted :
          i < j => RegistryIndex(attempted[i]) < RegistryIndex(attempted[j])
    /\ Range(attempted) \subseteq StagedPartitions
    /\ ExtractCompleted => Range(attempted) = StagedPartitions

\* C16 witness: three staged partitions were attempted and the call completed
C16_Witness ==
    /\ ExtractCompleted
    /\ Len(attempted) = 3
    /\ StagedPartitions = {"boot", "system", "modem"}

-----------------------------------------------------------------------------
(* More properties of fix_aliases (SpecAlias) *)

\* C13: the post-condition of fix_aliases. Whatever was staged, colliding
\* aliases included, no file named after an alias is left when fix_aliases
\* has ended.
C13_NoAliasLeft ==
    FixAliasesEnded =>
        \A i \in Aliases : ~IsFile(tmpRaw, AltPath(i))

-----------------------------------------------------------------------------
(* More properties of dumpyara (Spec) *)

\* a mkdir or the archive unpack raised in this call
FatalFailure == exc \in {"FileExistsError", "OSError", "UnpackError"}

\* C14: fatal failures abort the run. Once a mkdir or step_1 has raised, no
\* later statement of the try block runs: control is in the finally block or
\* past it, no raw image is prepared, no partition is attempted, the output
\* folder and all_files.txt are as they were before the call, nothing is
\* returned and the failure is what the caller is left with.
C14_FatalFailureAborts ==
    FatalFailure =>
        /\ pc \in {"finally", "done"}
        /\ result = NoResult
        /\ attempted = <<>>
        /\ tmpRaw \in {pre.tmpRaw, EmptyDir}
        /\ out = pre.out
        /\ outDirs = pre.outDirs
        /\ manifest = pre.manifest

\* C14 witness: the three folders were created, the unpack failed on an
\* archive holding partition files, and the call has ended
C14_Witness ==
    /\ Done
    /\ exc = "UnpackError"
    /\ created = {Path, ExtractedArchivePath, RawImagesPath}
    /\ "boot" \in archive

-----------------------------------------------------------------------------
(* More properties of correct_ab_filenames (SpecAB) *)

\* no known token has both slotted files in dir without the unslotted one
NoOrphanDual(dir) ==
    \A t \in KnownTokens :
        ~(IsFile(dir, SlotA(t)) /\ IsFile(dir, SlotB(t)) /\ ~IsFile(dir, Plain(t)))

\* C15: idempotence of the slot resolver. For every staging directory without
\* a dual-slot token lacking its unslotted file, correct_ab_filenames run
\* again on the directory the first run left, under any enumeration order,
\* creates, renames and deletes nothing.
C15_SecondRunIsNoOp ==
    (ABReturned /\ NoOrphanDual(raw0)) =>
        \A order \in Orders(DOMAIN tmpRaw) : ABFold(tmpRaw, order) = tmpRaw

\* C15 witness: the first run promoted one slotted file and deleted a
\* redundant one
C15_Witness ==
    /\ ABReturned
    /\ NoOrphanDual(raw0)
    /\ DOMAIN raw0 = {"boot_a.img", "system.img", "system_b.img"}
    /\ DOMAIN tmpRaw = {"boot.img", "system.img"}

\* the files under the output folder in the current state
FilesUnderPath == get_recursive_files_list(out, outDirs, dirs, tmpArchive, tmpRaw)

\* C17: manifest validity. After a successful run with debug=false every
\* path listed in all_files.txt names a file that exists under the output
\* folder when dumpyara returns; no listed path lies under
\* temp_extracted_archive or temp_raw_images.
C17_ManifestListsExistingFiles ==
    (Done /\ result = Path /\ ~debug) => manifest \subseteq FilesUnderPath

\* path.mkdir raised because the output folder was already there
PathExisted == exc = "FileExistsError" /\ created = {}

\* C18: a run that fails while creating its folders leaves what was there
\* before. When path.mkdir fails because the output folder exists, a
\* debug=false call removes nothing: the folders, the temp folders' content
\* and the output tree are as they were before the call.
C18_FailedMkdirRemovesNothing ==
    (Done /\ PathExisted /\ ~debug) =>
        /\ dirs = pre.dirs
        /\ tmpArchive = pre.tmpArchive
        /\ tmpRaw = pre.tmpRaw
        /\ out = pre.out
        /\ outDirs = pre.outDirs

-----------------------------------------------------------------------------
(* More properties of the stages in turn (SpecStages) *)

\* correct_ab_filenames and fix_aliases have both ended
Step2Ended == pc \notin {"correct_ab_filenames", "ab_loop", "fix_aliases"}

\* the files a canonical image can come from, by decreasing priority
Sources(i) ==
    LET c == ALTERNATIVE_PARTITION_NAMES[i][2]
        alt == ALTERNATIVE_PARTITION_NAMES[i][1]
    IN  <<Plain(c), SlotA(c), SlotB(c), Plain(alt), SlotA(alt), SlotB(alt)>>

\* the positions of Sources(i) that were staged
Present(i) == {k \in 1..6 : IsFile(raw0, Sources(i)[k])}

\* C19: source precedence. After correct_ab_filenames followed by
\* fix_aliases, under every enumeration order, for every canonical partition
\* with an alias: if any of c.img, c_a.img, c_b.img, alt.img, alt_a.img,
\* alt_b.img was staged, c.img exists and holds the content of the first of
\* them that was staged, in this order.
C19_SourcePrecedence ==
    Step2Ended =>
        \A i \in Aliases :
            Present(i) # {} =>
                /\ IsFile(tmpRaw, CanonicalPath(i))
                /\ tmpRaw[CanonicalPath(i)] = raw0[Sources(i)[Min(Present(i))]]

-----------------------------------------------------------------------------
(* Properties of the registry (SpecRegistry) *)

\* the keys of PARTITIONS
Keys == {PARTITIONS[k][1] : k \in 1..Len(PARTITIONS)}

\* the keys of ALTERNATIVE_PARTITION_NAMES
AliasNames == {ALTERNATIVE_PARTITION_NAMES[i][1] : i \in Aliases}

\* the keys of PARTITIONS, then those of ALTERNATIVE_PARTITION_NAMES
DeclaredNames ==
    [k \in 1..(Len(PARTITIONS) + Len(ALTERNATIVE_PARTITION_NAMES)) |->
        IF k <= Len(PARTITIONS) THEN PARTITIONS[k][1]
        ELSE ALTERNATIVE_PARTITION_NAMES[k - Len(PARTITIONS)][1]]

\* the value an alias is mapped to; any other name itself
Unaliased(n) ==
    IF n \in AliasNames
    THEN ALTERNATIVE_PARTITION_NAMES[CHOOSE i \in Aliases : ALTERNATIVE_PARTITION_NAMES[i][1] = n][2]
    ELSE n

\* C20: registry well-formedness. Every alias maps to a key of PARTITIONS,
\* no alias is itself a key, and no key or alias ends in _a or _b; hence
\* get_partition_name returns the canonical name of an alias and any other
\* name unchanged, a second lookup on its result returns the same name, and
\* get_partition_names_with_ab lists, for each key and then each alias in
\* declaration order, the name, name_a and name_b, without duplicates.
C20_RegistryWellFormed ==
    /\ \A i \in Aliases : ALTERNATIVE_PARTITION_NAMES[i][2] \in Keys
    /\ AliasNames \cap Keys = {}
    /\ \A n \in Keys \cup AliasNames : ~endswith(n, "_a") /\ ~endswith(n, "_b")
    /\ pc = "returned" =>
          /\ result = Unaliased(queried)
          /\ queried \notin AliasNames => result = queried
          /\ result \notin AliasNames
    /\ Len(get_partition_names_with_ab) = 3 * Len(DeclaredNames)
    /\ \A k \in 1..Len(DeclaredNames) :
          /\ get_partition_names_with_ab[3 * k - 2] = DeclaredNames[k]
          /\ get_partition_names_with_ab[3 * k - 1] = DeclaredNames[k] \o "_a"
          /\ get_partition_names_with_ab[3 * k] = DeclaredNames[k] \o "_b"
    /\ \A i \in DOMAIN get_partition_names_with_ab :
          \A j \in DOMAIN get_partition_names_with_ab :
              get_partition_names_with_ab[i] = get_partition_names_with_ab[j] => i = j

\* C20 witness: an alias was looked up, and the name returned looked up again
C20_Witness ==
    /\ pc = "returned"
    /\ run = 2
    /\ queried = "NON-HLOS"
    /\ result = "modem"

====
